---- MODULE Spec2Model ----
(***************************************************************************)
(* Dashboard state machine and environment store of startup_tui            *)
(* (src/src/app.rs): the event loop of App::run, the key handler, the      *)
(* load of the running totals, the 7-day projection of the running         *)
(* schedule done by App::ui and the read-modify-write save of the totals.  *)
(***************************************************************************)
EXTENDS Integers, Sequences, FiniteSets, TLC

VARIABLES
    pc,                 \* position in App::run: "new", "draw", "events", "popup", "done"
    outcome,            \* how the process ended: "none", "ok", "err", "panic"
    running,            \* App.running
    application_state,  \* App.application_state
    textarea_widget,    \* App.textarea_widget: the text of the widget, a sequence of characters
    running_totals,     \* App.running_totals: <<week, month, year>>
    environment_dict,   \* App.environment_dict: the JSON value read at startup
    file,               \* the content of ENVIRONMENT_PATH_JSON on disk
    log,                \* the lines of LOG_FILE_PATH, of which the model keeps the last
    log_file,           \* the condition of LOG_FILE_PATH: "ok", "unopenable", "unwritable"
    save_result,        \* the value last returned by update_running_totals_in_json
    local_date,         \* the date chrono::Local::now() gives
    am_running_items,   \* the AM row built by the last App::ui
    pm_running_items,   \* the PM row built by the last App::ui
    session_text        \* history: what the keys read by the current popup loop
                        \* (lines 94-110) would have typed into an empty widget

vars == <<pc, outcome, running, application_state, textarea_widget, running_totals,
          environment_dict, file, log, log_file, save_result,
          local_date, am_running_items, pm_running_items, session_text>>

(***************************************************************************)
(* Bounds of the model.                                                    *)
(***************************************************************************)
MaxText == 2        \* characters the text widget holds at most
MaxTotalsLen == 4   \* longest stored running_totals array drawn for the load

(***************************************************************************)
(* JSON values (serde_json::Value), tagged by kind.  Numbers are whole     *)
(* numbers; an object is a function from its keys to values.               *)
(***************************************************************************)
Null == [kind |-> "null"]
Num(n) == [kind |-> "num", v |-> n]
Str(s) == [kind |-> "str", v |-> s]
Arr(s) == [kind |-> "arr", v |-> s]
Obj(f) == [kind |-> "obj", v |-> f]

\* Value::index with a string key: Null for a non-object or a missing key.
Index(value, key) ==
    IF value.kind = "obj" /\ key \in DOMAIN value.v THEN value.v[key] ELSE Null

\* Value::as_array / as_str / as_f64 succeed exactly on the matching kind.
IsArray(value) == value.kind = "arr"
IsStr(value) == value.kind = "str"
IsF64(value) == value.kind = "num"

(***************************************************************************)
(* The stored document as text: the top-level members in file order (a key *)
(* may occur twice), or a text that is no JSON object.                     *)
(***************************************************************************)
Member(k, value) == [k |-> k, val |-> value]
ObjectFile(members) == [kind |-> "object", members |-> members]
OtherFile(kind) == [kind |-> kind, members |-> <<>>]

\* serde_json keeps an object's keys in a BTreeMap: sorted order.
KeyOrder == <<"extra", "running_schedule", "running_totals", "todo_list">>

LastIndexOf(members, k) ==
    CHOOSE i \in DOMAIN members :
        /\ members[i].k = k
        /\ \A j \in DOMAIN members : members[j].k = k => j <= i

\* serde_json::from_str on an object: a repeated key keeps its last value.
ParseObject(members) ==
    [k \in {members[i].k : i \in DOMAIN members} |-> members[LastIndexOf(members, k)].val]

\* serde_json::to_string_pretty on an object: its members in key order.
RECURSIVE SerializeFrom(_, _)
SerializeFrom(f, i) ==
    IF i > Len(KeyOrder) THEN <<>>
    ELSE (IF KeyOrder[i] \in DOMAIN f THEN <<Member(KeyOrder[i], f[KeyOrder[i]])>> ELSE <<>>)
         \o SerializeFrom(f, i + 1)

SerializeObject(f) == SerializeFrom(f, 1)

\* Does the text parse as JSON at all?
ParsesAsJson(f) == f.kind \in {"object", "null", "array"}

\* serde_json::from_str / from_reader of a text that parses.
ParseFile(f) ==
    CASE f.kind = "object" -> Obj(ParseObject(f.members))
      [] f.kind = "array" -> Arr(<<>>)
      [] OTHER -> Null

(***************************************************************************)
(* Calendar dates (chrono::NaiveDate) and the "%m/%d/%Y" format.           *)
(***************************************************************************)
Date(y, m, d) == [y |-> y, m |-> m, d |-> d]

IsLeap(y) == (y % 4 = 0 /\ y % 100 # 0) \/ y % 400 = 0

DaysInMonth(y, m) ==
    IF m = 2 THEN (IF IsLeap(y) THEN 29 ELSE 28)
    ELSE IF m \in {4, 6, 9, 11} THEN 30 ELSE 31

NextDay(date) ==
    IF date.d < DaysInMonth(date.y, date.m) THEN Date(date.y, date.m, date.d + 1)
    ELSE IF date.m < 12 THEN Date(date.y, date.m + 1, 1)
    ELSE Date(date.y + 1, 1, 1)

\* current_date + chrono::Duration::days(n)
RECURSIVE AddDays(_, _)
AddDays(date, n) == IF n = 0 THEN date ELSE AddDays(NextDay(date), n - 1)

Digits == <<"0", "1", "2", "3", "4", "5", "6", "7", "8", "9">>
Digit(n) == Digits[n + 1]
Pad2(n) == Digit((n \div 10) % 10) \o Digit(n % 10)
Pad4(n) == Pad2(n \div 100) \o Pad2(n % 100)

\* new_date.format("%m/%d/%Y").to_string()
DateString(date) == Pad2(date.m) \o "/" \o Pad2(date.d) \o "/" \o Pad4(date.y)

(***************************************************************************)
(* The running schedule of App::ui: seven AM and seven PM cells.           *)
(***************************************************************************)
DaysShown == 7

\* HashMap::insert
MapInsert(map, k, value) ==
    [x \in (DOMAIN map) \cup {k} |-> IF x = k THEN value ELSE map[x]]

\* The loop over day_increment in 0..7 that fills date_to_index_map.
RECURSIVE DateToIndexMapFrom(_, _, _)
DateToIndexMapFrom(today, day_increment, map) ==
    IF day_increment >= DaysShown THEN map
    ELSE DateToIndexMapFrom(today, day_increment + 1,
             MapInsert(map, DateString(AddDays(today, day_increment)), day_increment))

\* A map that counts the days from tomorrow.
DateToIndexMapFromTomorrow(today) == DateToIndexMapFrom(NextDay(today), 0, <<>>)

DateToIndexMap(today) == DateToIndexMapFrom(today, 0, <<>>)

RestRow == [i \in 1..DaysShown |-> "rest"]

\* One pass of the loop over running_items: the rows after the item at position i on.
RECURSIVE ProjectFrom(_, _, _, _)
ProjectFrom(items, i, map, rows) ==
    IF i > Len(items) THEN rows
    ELSE
        LET item == items[i]
            date == Index(item, "date")
            hit == IsStr(date) /\ date.v \in DOMAIN map
            slot == IF hit THEN map[date.v] + 1 ELSE 1
            am == Index(item, "am")
            pm == Index(item, "pm")
            newAm == IF hit /\ IsStr(am) THEN [rows.am EXCEPT ![slot] = am.v] ELSE rows.am
            newPm == IF hit /\ IsStr(pm) THEN [rows.pm EXCEPT ![slot] = pm.v] ELSE rows.pm
        IN ProjectFrom(items, i + 1, map, [am |-> newAm, pm |-> newPm])

\* am_running_items and pm_running_items as App::ui leaves them.
RunningSchedule(dict, today) ==
    LET running_items == Index(dict, "running_schedule")
    IN IF IsArray(running_items)
       THEN ProjectFrom(running_items.v, 1, DateToIndexMap(today),
                        [am |-> RestRow, pm |-> RestRow])
       ELSE [am |-> RestRow, pm |-> RestRow]

(***************************************************************************)
(* The log file.                                                           *)
(***************************************************************************)
KeepLast(lines) == IF lines = <<>> THEN lines ELSE <<lines[Len(lines)]>>

\* append_to_log: the open is unwrapped, a failed write is only reported on stderr.
\* A logger is the pair of the log's lines and whether the process has panicked.
AppendToLog(logger, message, logfile) ==
    IF logger.panic THEN logger
    ELSE IF logfile = "unopenable" THEN [lines |-> logger.lines, panic |-> TRUE]
    ELSE IF logfile = "unwritable" THEN logger
    ELSE [lines |-> KeepLast(Append(logger.lines, message)), panic |-> FALSE]

(***************************************************************************)
(* Loading: get_environment_dict and get_running_totals_from_json.         *)
(***************************************************************************)
TotalsLen == 3

\* io is what the file system does during the call: "ok" or the step that fails.
GetEnvironmentDict(f, io) ==
    IF f.kind = "missing" \/ io = "open_err" THEN Null
    ELSE IF io = "read_err" \/ ~ParsesAsJson(f) THEN Null
    ELSE ParseFile(f)

\* The loop over running_items.iter().enumerate(), from the item at position i on.
\* st is [totals, logger]; position i is the code's index i - 1.
RECURSIVE LoadTotalsFrom(_, _, _, _)
LoadTotalsFrom(items, i, st, logfile) ==
    IF i > Len(items) \/ st.logger.panic THEN st
    ELSE IF IsF64(items[i])
         THEN IF i > TotalsLen
              THEN [st EXCEPT !.logger.panic = TRUE]      \* index out of bounds
              ELSE LoadTotalsFrom(items, i + 1,
                       [st EXCEPT !.totals[i] = items[i].v], logfile)
         ELSE LoadTotalsFrom(items, i + 1,
                  [st EXCEPT !.logger = AppendToLog(st.logger,
                        "running totals f64 conversion failed", logfile)], logfile)

GetRunningTotalsFromJson(dict, totals, logger, logfile) ==
    LET running_items == Index(dict, "running_totals")
    IN IF IsArray(running_items)
       THEN LoadTotalsFrom(running_items.v, 1, [totals |-> totals, logger |-> logger], logfile)
       ELSE [totals |-> totals,
             logger |-> AppendToLog(logger, "messed up running totals existing", logfile)]

(***************************************************************************)
(* Saving: update_running_totals_in_json.                                  *)
(***************************************************************************)
IoOutcomes == {"ok", "open_err", "read_err", "trunc_err", "write_err_empty", "write_err_partial"}

TotalsJson(totals) == Arr(<<Num(totals[1]), Num(totals[2]), Num(totals[3])>>)

\* The document with running_totals replaced or inserted (lines 597-601).
WithRunningTotals(env_dict, totals) ==
    IF env_dict.kind = "obj" THEN MapInsert(env_dict.v, "running_totals", TotalsJson(totals))
    ELSE MapInsert(<<>>, "running_totals", TotalsJson(totals))

\* The file after the call and the call's result: "Ok", "Err", or "panic" when
\* env_dict["running_totals"] is assigned on a value that is neither object nor null.
UpdateRunningTotalsInJson(totals, f, io) ==
    IF f.kind = "missing" \/ io = "open_err" THEN [file |-> f, result |-> "Err"]
    ELSE IF io = "read_err" THEN [file |-> f, result |-> "Err"]
    ELSE IF ~ParsesAsJson(f) THEN [file |-> f, result |-> "Err"]
    ELSE IF ParseFile(f).kind \notin {"obj", "null"} THEN [file |-> f, result |-> "panic"]
    ELSE IF io = "trunc_err" THEN [file |-> f, result |-> "Err"]
    ELSE IF io = "write_err_empty" THEN [file |-> OtherFile("empty"), result |-> "Err"]
    ELSE IF io = "write_err_partial" THEN [file |-> OtherFile("partial"), result |-> "Err"]
    ELSE [file |-> ObjectFile(SerializeObject(WithRunningTotals(ParseFile(f), totals))),
          result |-> "Ok"]

(***************************************************************************)
(* Input events (crossterm::event::Event), and a failed event::read().     *)
(***************************************************************************)
KeyEv(code, modifiers, kind) ==
    [type |-> "key", code |-> code, modifiers |-> modifiers, kind |-> kind]
OtherEv(type) == [type |-> type, code |-> "", modifiers |-> "", kind |-> ""]

ReadError == OtherEv("error")

Esc == KeyEv("Esc", "NONE", "press")
CtrlC == KeyEv("c", "CONTROL", "press")
CtrlL == KeyEv("l", "CONTROL", "press")
CtrlR == KeyEv("r", "CONTROL", "press")
CtrlT == KeyEv("t", "CONTROL", "press")
CtrlW == KeyEv("w", "CONTROL", "press")
Ctrl0 == KeyEv("0", "CONTROL", "press")
Key5 == KeyEv("5", "NONE", "press")
Enter == KeyEv("Enter", "NONE", "press")
EscRelease == KeyEv("Esc", "NONE", "release")
Key5Release == KeyEv("5", "NONE", "release")

KeyEvents == {Esc, CtrlC, CtrlL, CtrlR, CtrlT, CtrlW, Ctrl0, Key5, Enter,
              EscRelease, Key5Release}
NonKeyEvents == {OtherEv("mouse"), OtherEv("resize"), OtherEv("focus")}
Events == KeyEvents \cup NonKeyEvents \cup {ReadError}

(***************************************************************************)
(* The text widget (tui_textarea::TextArea), as far as the keys above go:  *)
(* a plain character or Enter is inserted, ctrl+w deletes the word before  *)
(* the cursor, a key release and the other chords leave the text alone.    *)
(***************************************************************************)
Inserts(key) ==
    key.kind # "release" /\ key.modifiers = "NONE" /\ key.code \in {"5", "Enter"}

RECURSIVE DeleteWord(_)
DeleteWord(text) ==
    IF text = <<>> THEN text
    ELSE IF text[Len(text)] = "\n" THEN SubSeq(text, 1, Len(text) - 1)
    ELSE IF Len(text) = 1 \/ text[Len(text) - 1] = "\n" THEN SubSeq(text, 1, Len(text) - 1)
    ELSE DeleteWord(SubSeq(text, 1, Len(text) - 1))

TextAreaInput(text, key) ==
    IF Inserts(key) THEN Append(text, IF key.code = "Enter" THEN "\n" ELSE key.code)
    ELSE IF key.kind # "release" /\ key.modifiers = "CONTROL" /\ key.code = "w"
         THEN DeleteWord(text)
    ELSE text

\* self.textarea_widget.lines().join("\n")
RECURSIVE JoinedText(_)
JoinedText(text) == IF text = <<>> THEN "" ELSE text[1] \o JoinedText(Tail(text))

(***************************************************************************)
(* App::on_key_event.  app is the record of the fields the handler can     *)
(* touch, with the file on disk, the result of the last save and whether   *)
(* the process has panicked.                                               *)
(***************************************************************************)
IsQuitKey(key) ==
    \/ key.code \in {"Esc", "q"}
    \/ key.modifiers = "CONTROL" /\ key.code \in {"c", "C"}

\* A reset that clears every counter.
ResetAllCounters(totals) == <<0, 0, 0>>

\* A reset that clears the month with the week.
ResetWeekAndMonth(totals) == <<0, 0, totals[3]>>

\* Line 182.
ResetWeek(totals) == <<0, totals[2], totals[3]>>

OnKeyEvent(app, key, io) ==
    IF IsQuitKey(key) THEN [app EXCEPT !.running = FALSE]
    ELSE IF key.modifiers = "CONTROL" /\ key.code \in {"l", "L"}
         THEN [app EXCEPT !.application_state = "InsertCalendarItemPopup"]
    ELSE IF key.modifiers = "CONTROL" /\ key.code = "r"
         THEN [app EXCEPT !.application_state = "InsertRunPopup"]
    ELSE IF key.modifiers = "CONTROL" /\ key.code = "t"
         THEN [app EXCEPT !.application_state = "InsertRunPopup"]
    ELSE IF key.modifiers = "CONTROL" /\ key.code = "0"
         THEN LET totals == ResetWeek(app.running_totals)
                  saved == UpdateRunningTotalsInJson(totals, app.file, io)
              IN [app EXCEPT !.running_totals = totals,
                             !.file = saved.file,
                             !.save_result = saved.result,
                             !.panic = (saved.result = "panic")]
    ELSE app

\* handle_crossterm_events after a successful read: only a key press is handled.
HandleEvent(app, e, io) ==
    IF e.type = "key" /\ e.kind = "press" THEN OnKeyEvent(app, e, io) ELSE app

(***************************************************************************)
(* App::ui: the log lines it writes, the rows it builds, and the panic of  *)
(* Gauge::ratio on a ratio outside 0..1.                                   *)
(***************************************************************************)
WeekMax == 110
MonthMax == 400
YearMax == 5000

RatioOk(current, max) == 0 <= current /\ current <= max

Ui(dict, totals, logger, logfile, today) ==
    LET l1 == IF IsArray(Index(dict, "todo_list")) THEN logger
              ELSE AppendToLog(logger, "Todo list items don't exist", logfile)
        l2 == IF IsArray(Index(dict, "running_schedule")) THEN l1
              ELSE AppendToLog(l1, "Running schedule items don't exist", logfile)
        gauges == /\ RatioOk(totals[1], WeekMax)
                  /\ RatioOk(totals[2], MonthMax)
                  /\ RatioOk(totals[3], YearMax)
    IN [logger |-> [l2 EXCEPT !.panic = l2.panic \/ ~gauges],
        rows |-> RunningSchedule(dict, today)]

(***************************************************************************)
(* Inputs: local dates, schedule entries and stored documents.             *)
(***************************************************************************)
Todays == {Date(2024, 2, 24), Date(2024, 2, 29), Date(2023, 2, 23), Date(2024, 12, 28)}

Entry(date, am, pm) ==
    Obj([k \in {"date", "am", "pm"} |->
            IF k = "date" THEN date ELSE IF k = "am" THEN am ELSE pm])

GoodSchedule ==
    Arr(<<Entry(Str("03/01/2024"), Str("easy"), Str("long")),
          Entry(Str("01/01/2025"), Str("bike"), Null)>>)

GoodFile ==
    ObjectFile(<<Member("todo_list", Arr(<<Str("shop")>>)),
                 Member("running_totals", Arr(<<Num(5), Num(20), Num(300)>>)),
                 Member("running_schedule", GoodSchedule),
                 Member("extra", Str("draft")),
                 Member("extra", Str("keep"))>>)
SparseFile == ObjectFile(<<Member("running_totals", Arr(<<Str("a"), Num(2), Num(3)>>))>>)
OverFile ==
    ObjectFile(<<Member("todo_list", Arr(<<>>)),
                 Member("running_schedule", Arr(<<>>)),
                 Member("running_totals", Arr(<<Num(120), Num(20), Num(300)>>))>>)
LongFile ==
    ObjectFile(<<Member("todo_list", Arr(<<>>)),
                 Member("running_totals", Arr(<<Num(1), Num(2), Num(3), Num(4)>>))>>)

InitialFiles ==
    {GoodFile, SparseFile, OverFile, LongFile,
     OtherFile("missing"), OtherFile("garbage"), OtherFile("array"), OtherFile("null")}

LogFileStates == {"ok", "unopenable", "unwritable"}

(***************************************************************************)
(* The state after App::new(), before App::run.                            *)
(***************************************************************************)
Constructed ==
    /\ pc = "new"
    /\ outcome = "none"
    /\ running = FALSE
    /\ application_state = "Main"
    /\ textarea_widget = <<>>
    /\ session_text = <<>>
    /\ running_totals = <<0, 0, 0>>
    /\ environment_dict = Null
    /\ log = <<>>
    /\ save_result = "none"
    /\ am_running_items = RestRow
    /\ pm_running_items = RestRow

Init ==
    /\ Constructed
    /\ file \in InitialFiles
    /\ log_file \in LogFileStates
    /\ local_date = Date(2024, 2, 24)

Panic == pc' = "done" /\ outcome' = "panic"
ReturnErr == pc' = "done" /\ outcome' = "err"

\* The end of one pass of `while self.running`.
LoopBack(stillRunning) ==
    IF stillRunning THEN pc' = "draw" /\ outcome' = outcome
    ELSE pc' = "done" /\ outcome' = "ok"

(***************************************************************************)
(* App::run, lines 86-89: the start of the run.                            *)
(***************************************************************************)
Startup ==
    /\ pc = "new"
    /\ \E io \in {"ok", "open_err", "read_err"} :
         LET dict == GetEnvironmentDict(file, io)
             loaded == GetRunningTotalsFromJson(dict, running_totals,
                           [lines |-> log, panic |-> FALSE], log_file)
         IN /\ running' = TRUE
            /\ textarea_widget' = <<>>
            /\ environment_dict' = dict
            /\ running_totals' = loaded.totals
            /\ log' = loaded.logger.lines
            /\ IF loaded.logger.panic THEN Panic
               ELSE pc' = "draw" /\ outcome' = outcome
    /\ UNCHANGED <<application_state, file, log_file, save_result,
                   local_date, am_running_items, pm_running_items, session_text>>

(***************************************************************************)
(* terminal.draw(|frame| self.ui(frame))?  term is what the terminal does: *)
(* "ok", or it fails before or after the closure ran.                      *)
(***************************************************************************)
TermOutcomes == {"ok", "err_before", "err_after"}

\* The frame's effect on the log and the rows, and where the run goes if the frame
\* was drawn: next is the position after a successful draw.
DrawFrame(term, next) ==
    LET frame == Ui(environment_dict, running_totals,
                    [lines |-> log, panic |-> FALSE], log_file, local_date)
    IN IF term = "err_before"
       THEN /\ ReturnErr
            /\ UNCHANGED <<log, am_running_items, pm_running_items>>
       ELSE /\ log' = frame.logger.lines
            /\ IF frame.logger.panic
               THEN /\ Panic
                    /\ UNCHANGED <<am_running_items, pm_running_items>>
               ELSE /\ am_running_items' = frame.rows.am
                    /\ pm_running_items' = frame.rows.pm
                    /\ IF term = "err_after" THEN ReturnErr
                       ELSE pc' = next /\ outcome' = outcome

\* Line 91.
Draw ==
    /\ pc = "draw"
    /\ \E term \in TermOutcomes : DrawFrame(term, "events")
    /\ UNCHANGED <<running, application_state, textarea_widget, running_totals,
                   environment_dict, file, log_file, save_result, local_date,
                   session_text>>

(***************************************************************************)
(* Line 92 and the match of lines 93-132 up to the popup loops:            *)
(* handle_crossterm_events()?, then the branch on application_state.       *)
(***************************************************************************)
PopupStates == {"InsertRunPopup", "InsertTodoItemPopup"}

\* What the file system may do while e is handled: only the reset of the week
\* touches the file.
IoDuring(e) ==
    IF e.type = "key" /\ e.kind = "press" /\ e.modifiers = "CONTROL" /\ e.code = "0"
    THEN IoOutcomes ELSE {"ok"}

HandleCrosstermEventsOn(e) ==
    /\ pc = "events"
    /\ \E io \in IoDuring(e) :
         /\ IF e = ReadError
            THEN /\ ReturnErr
                 /\ UNCHANGED <<running, application_state, running_totals, file, save_result>>
            ELSE LET app == [running |-> running,
                             application_state |-> application_state,
                             running_totals |-> running_totals,
                             file |-> file,
                             save_result |-> save_result,
                             panic |-> FALSE]
                     next == HandleEvent(app, e, io)
                 IN /\ running' = next.running
                    /\ application_state' = next.application_state
                    /\ running_totals' = next.running_totals
                    /\ file' = next.file
                    /\ save_result' = next.save_result
                    /\ IF next.panic THEN Panic
                       ELSE IF next.application_state \in PopupStates
                            THEN pc' = "popup" /\ outcome' = outcome
                       ELSE LoopBack(next.running)
    /\ UNCHANGED <<textarea_widget, environment_dict, log, log_file,
                   local_date, am_running_items, pm_running_items, session_text>>

HandleCrosstermEvents == \E e \in Events : HandleCrosstermEventsOn(e)

(***************************************************************************)
(* The popup loops of lines 94-130: one event::read() and what follows it. *)
(***************************************************************************)
IsCancelKey(key) ==
    \/ key.code = "Esc"
    \/ key.modifiers = "CONTROL" /\ key.code = "c"

\* The state the branch leaves behind once its loop breaks: only the
\* InsertRunPopup branch assigns Main (line 111).
AfterPopup(state) == IF state = "InsertRunPopup" THEN "Main" ELSE state

\* What the terminal may do while e is handled: only a key that is not a cancel
\* key is followed by a draw.
TermDuring(e) == IF e.type = "key" /\ ~IsCancelKey(e) THEN TermOutcomes ELSE {"ok"}

PopupReadOn(e) ==
    /\ pc = "popup"
    /\ Inserts(e) => Len(textarea_widget) < MaxText
    /\ \E term \in TermDuring(e) :
         /\ IF e.type = "key"
            THEN IF IsCancelKey(e)
                 THEN LET logger == AppendToLog([lines |-> log, panic |-> FALSE],
                                                JoinedText(textarea_widget), log_file)
                      IN /\ log' = logger.lines
                         /\ IF logger.panic
                            THEN Panic /\ application_state' = application_state
                            ELSE /\ application_state' = AfterPopup(application_state)
                                 /\ LoopBack(running)
                         /\ session_text' = <<>>
                         /\ UNCHANGED <<textarea_widget,
                                        am_running_items, pm_running_items>>
                 ELSE /\ textarea_widget' = TextAreaInput(textarea_widget, e)
                      /\ session_text' = TextAreaInput(session_text, e)
                      /\ DrawFrame(term, "popup")
                      /\ application_state' = application_state
            ELSE /\ application_state' = AfterPopup(application_state)
                 /\ LoopBack(running)
                 /\ session_text' = <<>>
                 /\ UNCHANGED <<textarea_widget, log,
                                am_running_items, pm_running_items>>
    /\ UNCHANGED <<running, running_totals, environment_dict, file, log_file,
                   save_result, local_date>>

PopupRead == \E e \in Events : PopupReadOn(e)

Next == Startup \/ Draw \/ HandleCrosstermEvents \/ PopupRead

Spec == Init /\ [][Next]_vars

(***************************************************************************)
(* The schedule projection on its own: every frame of a running dashboard  *)
(* over a range of stored schedules and local dates.                       *)
(***************************************************************************)
MaxEntries == 2     \* longest running_schedule array drawn for the projection

ScheduleEntries ==
    {Entry(Str("03/01/2024"), Str("easy"), Str("long")),
     Entry(Str("03/01/2024"), Null, Str("tempo")),
     Entry(Str("3/1/2024"), Str("hills"), Str("hills")),
     Entry(Str("02/29/2024"), Str("swim"), Num(5)),
     Entry(Str("01/01/2025"), Str("bike"), Str("rest")),
     Entry(Str("03/08/2024"), Str("late"), Str("late")),
     Entry(Num(3), Str("odd"), Str("odd")),
     Str("junk")}

SeqsUpTo(S, n) == UNION {[1..k -> S] : k \in 0..n}

ScheduleDicts ==
    {Obj([k \in {"todo_list", "running_schedule"} |->
             IF k = "todo_list" THEN Arr(<<>>) ELSE Arr(items)]) :
        items \in SeqsUpTo(ScheduleEntries, MaxEntries)}
    \cup {Null, Obj([k \in {"running_schedule"} |-> Str("none")])}

InitProj ==
    /\ pc = "draw"
    /\ outcome = "none"
    /\ running = TRUE
    /\ application_state = "Main"
    /\ textarea_widget = <<>>
    /\ session_text = <<>>
    /\ running_totals = <<0, 0, 0>>
    /\ environment_dict \in ScheduleDicts
    /\ file = OtherFile("missing")
    /\ log = <<>>
    /\ log_file \in LogFileStates
    /\ save_result = "none"
    /\ local_date \in Todays
    /\ am_running_items = RestRow
    /\ pm_running_items = RestRow

SpecProj == InitProj /\ [][Draw]_vars

(***************************************************************************)
(* The load of the running totals on its own, over a range of stored       *)
(* running_totals fields.                                                  *)
(***************************************************************************)
TotalsElements == {Num(1), Num(2), Str("a"), Null}

TotalsFields ==
    {Arr(items) : items \in SeqsUpTo(TotalsElements, MaxTotalsLen)}
    \cup {Null, Num(3), Str("none")}

InitLoad ==
    /\ Constructed
    /\ file \in {ObjectFile(<<Member("running_totals", field)>>) : field \in TotalsFields}
    /\ log_file \in LogFileStates
    /\ local_date = Date(2024, 2, 24)

SpecLoad == InitLoad /\ [][Startup]_vars

(***************************************************************************)
(* Properties.                                                             *)
(***************************************************************************)
Fatal == {"err", "panic"}

\* A step that handles event e, at either place where App::run reads events.
Handles(e) == HandleCrosstermEventsOn(e) \/ PopupReadOn(e)

\* C1: from every non-Main dashboard state a cancel key (Escape, or ctrl+c)
\* returns the state to Main and the application keeps running.  Stated for a
\* log file that can be opened, so that no logging failure is involved.
C1_CancelReturnsToMain ==
    [][\A e \in {Esc, CtrlC} :
          (application_state # "Main" /\ log_file = "ok" /\ Handles(e))
              => (application_state' = "Main" /\ running' /\ outcome' = "none")]_vars

\* C2: in a non-Main state a key other than the reserved cancel and confirm keys
\* goes to the text widget and runs no Main-state command: it neither quits,
\* nor opens another popup, nor resets the week.
C2_PopupKeysGoToBuffer ==
    [][\A e \in KeyEvents \ {Esc, CtrlC, EscRelease, Enter} :
          (application_state # "Main" /\ Handles(e))
              => /\ running' = running
                 /\ application_state' = application_state
                 /\ running_totals' = running_totals
                 /\ textarea_widget' = TextAreaInput(textarea_widget, e)]_vars

\* C3: from Main each popup state is entered by its own open command, the
\* shortcuts the dashboard lists (lines 455-476): ctrl+r the schedule editor,
\* ctrl+t the todo editor, ctrl+w the add-to-totals popup.
C3_OpenCommandsEnterTheirPopup ==
    [][application_state = "Main" =>
          /\ HandleCrosstermEventsOn(CtrlR) => application_state' = "InsertCalendarItemPopup"
          /\ HandleCrosstermEventsOn(CtrlT) => application_state' = "InsertTodoItemPopup"
          /\ HandleCrosstermEventsOn(CtrlW) => application_state' = "InsertRunPopup"]_vars

\* The number a text of digits denotes, and whether a text is one.
IsNumericText(text) == text # <<>> /\ \A i \in DOMAIN text : text[i] = "5"
RECURSIVE TextValue(_)
TextValue(text) ==
    IF text = <<>> THEN 0 ELSE 10 * TextValue(SubSeq(text, 1, Len(text) - 1)) + 5

\* C4: from Main the add-to-totals command (ctrl+w) opens the add popup, and
\* Enter on a numeric text x there adds x to the week, month and year counters
\* and returns the dashboard to Main.
C4_AddToTotals ==
    [][/\ (application_state = "Main" /\ HandleCrosstermEventsOn(CtrlW))
            => application_state' = "InsertRunPopup"
       /\ (application_state = "InsertRunPopup" /\ IsNumericText(textarea_widget)
             /\ PopupReadOn(Enter))
            => /\ running_totals' = [i \in 1..3 |->
                                        running_totals[i] + TextValue(textarea_widget)]
               /\ application_state' = "Main"]_vars

\* C5: the reset-week command sets the week counter to 0 and leaves the month
\* counter, the year counter and the dashboard state as they were, whatever the
\* save that follows does.
C5_ResetWeekFrame ==
    [][HandleCrosstermEventsOn(Ctrl0)
          => /\ running_totals'[1] = 0
             /\ running_totals'[2] = running_totals[2]
             /\ running_totals'[3] = running_totals[3]
             /\ Len(running_totals') = 3
             /\ application_state' = application_state]_vars

\* A reset whose save failed has acted on loaded counters 5, 20, 300.
C5_Witness ==
    /\ save_result = "Err"
    /\ running_totals = <<0, 20, 300>>
    /\ application_state = "Main"
    /\ pc = "draw"

\* The stored schedule entries, and whether a cell of a row comes from one
\* of them dated as the slot is: slot i shows the day local_date + (i - 1).
StoredEntries ==
    IF IsArray(Index(environment_dict, "running_schedule"))
    THEN Index(environment_dict, "running_schedule").v ELSE <<>>

CellFromEntry(cell, i, field) ==
    \E j \in DOMAIN StoredEntries :
        LET entry == StoredEntries[j]
        IN /\ IsStr(Index(entry, "date"))
           /\ Index(entry, "date").v = DateString(AddDays(local_date, i - 1))
           /\ IsStr(Index(entry, field))
           /\ Index(entry, field).v = cell

\* C6: for every stored document and every start date the projection has
\* exactly 7 AM and 7 PM cells, each "rest" or the am (pm) string of a stored
\* entry whose date is the date of that slot.
C6_ProjectionCells ==
    /\ DOMAIN am_running_items = 1..7
    /\ DOMAIN pm_running_items = 1..7
    /\ \A i \in 1..7 :
          /\ am_running_items[i] = "rest" \/ CellFromEntry(am_running_items[i], i, "am")
          /\ pm_running_items[i] = "rest" \/ CellFromEntry(pm_running_items[i], i, "pm")

\* A frame drawn on 02/24/2024 from a schedule with an entry for 03/01/2024,
\* the last day shown, and an entry outside the seven days.
C6_Witness ==
    /\ pc = "events"
    /\ local_date = Date(2024, 2, 24)
    /\ am_running_items[7] = "easy"
    /\ pm_running_items[7] = "long"
    /\ \A i \in 1..6 : am_running_items[i] = "rest"
    /\ \E j \in DOMAIN StoredEntries : Index(StoredEntries[j], "am") = Str("late")

\* The value a top-level field of the stored file has for a reader.
FileHolds(k, value) ==
    /\ ParsesAsJson(file)
    /\ Index(ParseFile(file), k).kind = value.kind
    /\ Index(ParseFile(file), k) = value

\* C7: persisting the totals rewrites only running_totals: once the document
\* has been loaded, after any saves the file's todo_list, running_schedule and
\* unrecognized fields are what they were when it was loaded.
C7_SaveKeepsOtherFields ==
    (environment_dict.kind = "obj" /\ save_result # "none")
        => \A k \in {"todo_list", "running_schedule", "extra"} :
               FileHolds(k, Index(environment_dict, k))

\* The stored running_totals field as loaded.
LoadedTotalsField == Index(environment_dict, "running_totals")

ExpectedSlot(i) ==
    IF IsArray(LoadedTotalsField) /\ i <= Len(LoadedTotalsField.v)
          /\ IsF64(LoadedTotalsField.v[i])
    THEN LoadedTotalsField.v[i].v ELSE 0

\* C8: whatever the stored running_totals field holds, the load completes
\* without ending the program and leaves exactly three counters, slot i
\* holding element i when it is numeric and 0 otherwise.  Stated for a log
\* file that can be opened, so that no logging failure is involved.
C8_LoadIsTotal ==
    (pc # "new" /\ log_file = "ok")
        => /\ outcome # "panic"
           /\ Len(running_totals) = 3
           /\ \A i \in 1..3 : running_totals[i] = ExpectedSlot(i)

\* The complete document a save of the totals writes.
IsCompleteDocument(f, totals) ==
    /\ f.kind = "object"
    /\ "running_totals" \in DOMAIN ParseObject(f.members)
    /\ ParseObject(f.members)["running_totals"] = TotalsJson(totals)

\* C9: a save never leaves the file truncated or half-written while the
\* dashboard carries on: a step leaves the file as it was, or holding the
\* complete new document, or ends the program with a fatal error.
C9_SaveIsAtomic ==
    [][\/ file' = file
       \/ IsCompleteDocument(file', running_totals')
       \/ outcome' \in Fatal]_vars

\* C10: when the save that follows the reset of the week fails, the failure
\* reaches the user: the run ends with the error, or at least a line is logged.
C10_SaveFailureSurfaced ==
    [][(HandleCrosstermEventsOn(Ctrl0) /\ save_result' = "Err")
          => (outcome' = "err" \/ log' # log)]_vars

\* The panics the program has apart from the logger's: the load indexing past
\* the third counter, Gauge::ratio on a ratio outside 0..1, and the save
\* assigning a key on a stored value that is neither object nor null.
PanicsWithoutLogging ==
    \/ /\ IsArray(LoadedTotalsField)
       /\ \E i \in DOMAIN LoadedTotalsField.v : i > TotalsLen /\ IsF64(LoadedTotalsField.v[i])
    \/ ~RatioOk(running_totals[1], WeekMax)
    \/ ~RatioOk(running_totals[2], MonthMax)
    \/ ~RatioOk(running_totals[3], YearMax)
    \/ save_result = "panic"

\* C11: a log file that cannot be opened or written never ends the dashboard:
\* the program does not panic unless one of its other panics applies.
C11_LogFailureNotFatal ==
    outcome = "panic" => PanicsWithoutLogging

\* C13: no event other than a key event, and no failed event read, changes the
\* dashboard state; in particular none closes an open popup.
C13_OnlyKeysChangeState ==
    [][\A e \in NonKeyEvents \cup {ReadError} :
          Handles(e) => application_state' = application_state]_vars

C14_PopupStartsEmpty ==
    [][(application_state = "Main" /\ application_state' # "Main")
          => textarea_widget' = <<>>]_vars

\* C12: cancelling the popup that ctrl+t opens, with a log file that takes the
\* line, leaves the stored document as it was and logs the text typed in that
\* session.
C12_CancelLogsSessionText ==
    [][\A e \in {Esc, CtrlC} :
          (application_state = "InsertRunPopup" /\ log_file = "ok" /\ PopupReadOn(e))
              => (file' = file /\ log' = <<JoinedText(session_text)>>)]_vars
====
